---- MODULE Spec2Model ----
(***************************************************************************)
(* A model of erica (src/erica/__init__.py): the route registry and        *)
(* dispatch of Erica, the per-request entry points do_GET / do_POST of     *)
(* RequestHandler, the senders of Response, the body accessors of          *)
(* RequestHandler and the serving loop started by run().                   *)
(*                                                                         *)
(* Text is a sequence of characters (one-character strings), bytes are a   *)
(* sequence of integers 0..255, a Python dict is a sequence of <<key,      *)
(* value>> pairs in insertion order, and an operation that may raise       *)
(* returns a record with an exc field (NoExc when it returned normally).   *)
(***************************************************************************)
EXTENDS Integers, Sequences, FiniteSets, TLC

VARIABLES
    handlers,   \* Erica.handlers: the route registry, in registration order
    server,     \* position of run(): "new", "serving", "returned", "raised"
    sock,       \* the listening socket: "none", "open", "closed"
    log,        \* the lines printed by run()
    pending,    \* a connection waits in the listen queue, not yet handled
    last,       \* what the latest request/response cycle did
    headers,    \* request context under test: the request's header mapping
    rfile,      \* request context under test: the unread body stream
    got,        \* request context under test: result of the latest access
    sent        \* response writer under test: the latest call and its outcome

vars == <<handlers, server, sock, log, pending, last, headers, rfile, got, sent>>

(***************************************************************************)
(* Bounds of the model.                                                    *)
(***************************************************************************)
MaxHandlers == 2    \* registry entries

(***************************************************************************)
(* Characters, text and bytes.                                             *)
(***************************************************************************)
Ascii ==
    << " ", "!", "U+22", "#", "$", "%", "&", "'", "(", ")", "*", "+",
       ",", "-", ".", "/", "0", "1", "2", "3", "4", "5", "6", "7",
       "8", "9", ":", ";", "<", "=", ">", "?", "@", "A", "B", "C",
       "D", "E", "F", "G", "H", "I", "J", "K", "L", "M", "N", "O",
       "P", "Q", "R", "S", "T", "U", "V", "W", "X", "Y", "Z", "[",
       "U+5C", "]", "^", "_", "U+60", "a", "b", "c", "d", "e", "f", "g",
       "h", "i", "j", "k", "l", "m", "n", "o", "p", "q", "r", "s",
       "t", "u", "v", "w", "x", "y", "z", "{", "|", "}", "~" >>

\* "U+22", "U+5C" and "U+60" stand for the double quote, the backslash and
\* the backtick, and
\* "U+E9" for the single non-ASCII character e-acute (code point 233).
EAcute == "U+E9"

Chars == {Ascii[i] : i \in 1..95} \cup {EAcute}

\* ord(c)
Ord == [c \in Chars |->
          IF c = EAcute THEN 233
          ELSE 31 + (CHOOSE i \in 1..95 : Ascii[i] = c)]

\* chr(n), for the code points of Chars
Chr(n) == IF n = 233 THEN EAcute ELSE Ascii[n - 31]

RECURSIVE Utf8Encode(_)
\* str.encode("utf-8"), for code points below 0x800
Utf8Encode(s) ==
    IF s = <<>> THEN <<>>
    ELSE LET cp == Ord[Head(s)]
         IN  (IF cp < 128 THEN <<cp>>
              ELSE <<192 + (cp \div 64), 128 + (cp % 64)>>)
             \o Utf8Encode(Tail(s))

RECURSIVE Utf8Valid(_)
\* whether bytes.decode("utf-8") succeeds, for the code points of Chars
Utf8Valid(b) ==
    IF b = <<>> THEN TRUE
    ELSE IF b[1] >= 32 /\ b[1] < 127 THEN Utf8Valid(Tail(b))
    ELSE IF b[1] = 195 /\ Len(b) >= 2 /\ b[2] = 169
         THEN Utf8Valid(Tail(Tail(b)))
    ELSE FALSE

RECURSIVE Utf8Decode(_)
\* bytes.decode("utf-8") of valid input
Utf8Decode(b) ==
    IF b = <<>> THEN <<>>
    ELSE IF b[1] < 128 THEN <<Chr(b[1])>> \o Utf8Decode(Tail(b))
    ELSE <<Chr((b[1] - 192) * 64 + (b[2] - 128))>> \o Utf8Decode(Tail(Tail(b)))

\* str.lower() on one character
LowerChar(c) ==
    IF c # EAcute /\ Ord[c] >= 65 /\ Ord[c] <= 90 THEN Chr(Ord[c] + 32) ELSE c

\* str.lower()
Lower(s) == [i \in 1..Len(s) |-> LowerChar(s[i])]

Digits == <<"0", "1", "2", "3", "4", "5", "6", "7", "8", "9">>

IsDigit(c) == \E i \in 1..10 : Digits[i] = c

DigitVal(c) == (CHOOSE i \in 1..10 : Digits[i] = c) - 1

RECURSIVE DigitsVal(_, _)
\* the number written by the digits of s, after acc
DigitsVal(s, acc) ==
    IF s = <<>> THEN acc ELSE DigitsVal(Tail(s), acc * 10 + DigitVal(Head(s)))

RECURSIVE NatStr(_)
\* str(n) for n >= 0
NatStr(n) ==
    IF n < 10 THEN <<Digits[n + 1]>>
    ELSE NatStr(n \div 10) \o <<Digits[(n % 10) + 1]>>

\* str(n)
IntStr(n) == IF n < 0 THEN <<"-">> \o NatStr(0 - n) ELSE NatStr(n)

(***************************************************************************)
(* Text literals of the source and of the Python runtime.                  *)
(***************************************************************************)
NotFoundText == <<"N", "o", "t", " ", "F", "o", "u", "n", "d">>
ContentTypeKey == <<"C", "o", "n", "t", "e", "n", "t", "-", "t", "y", "p", "e">>
ContentTypeName == <<"C", "o", "n", "t", "e", "n", "t", "-", "T", "y", "p", "e">>
TextHtml == <<"t", "e", "x", "t", "/", "h", "t", "m", "l">>
TextPlain == <<"t", "e", "x", "t", "/", "p", "l", "a", "i", "n">>
ApplicationJson == <<"a", "p", "p", "l", "i", "c", "a", "t", "i", "o", "n", "/", "j", "s", "o", "n">>
ContentLengthKey == <<"C", "o", "n", "t", "e", "n", "t", "-", "L", "e", "n", "g", "t", "h">>
ServerKey == <<"S", "e", "r", "v", "e", "r">>
DateKey == <<"D", "a", "t", "e">>
\* BaseHTTPRequestHandler.version_string() and date_time_string(), abridged
ServerVersion == <<"B", "a", "s", "e", "H", "T", "T", "P", "/", "0", ".", "6">>
DateNow == <<"n", "o", "w">>
\* str() of the BrokenPipeError raised by a write to a closed connection
BrokenPipeText == <<"[", "E", "r", "r", "n", "o", " ", "3", "2", "]", " ", "B", "r", "o", "k", "e", "n", " ", "p", "i", "p", "e">>
\* the head of str() of the ValueError raised by int() on a malformed text
InvalidLiteralText ==
    <<"i", "n", "v", "a", "l", "i", "d", " ", "l", "i", "t", "e", "r", "a", "l", " ", "f", "o", "r", " ", "i", "n", "t", "(", ")", " ", "w", "i", "t", "h", " ",
       "b", "a", "s", "e", " ", "1", "0", ":", " ">>

\* str() of the UnicodeDecodeError of bytes.decode, abridged
DecodeErrorText == <<"'", "u", "t", "f", "-", "8", "'", " ", "c", "o", "d", "e", "c", " ", "c", "a", "n", "'", "t", " ", "d", "e", "c", "o", "d", "e">>

(***************************************************************************)
(* Exceptions: a type and the text str(e) gives. All types below are       *)
(* subclasses of Exception.                                                *)
(***************************************************************************)
NoExc == [type |-> "none", msg |-> <<>>]

Exc(type, msg) == [type |-> type, msg |-> msg]

Raised(r) == r.exc.type # "none"

\* `except Exception` catches e
IsException(e) ==
    e.type \in {"Exception", "KeyError", "ValueError", "BrokenPipeError",
                "UnicodeDecodeError", "JSONDecodeError"}

\* str(e)
StrOfExc(e) == e.msg

(***************************************************************************)
(* A Python dict as a sequence of <<key, value>> pairs in insertion order. *)
(***************************************************************************)
DictHas(d, k) == \E i \in 1..Len(d) : d[i][1] = k

\* d[k] = v
DictSet(d, k, v) ==
    IF DictHas(d, k)
    THEN [i \in 1..Len(d) |-> IF d[i][1] = k THEN <<k, v>> ELSE d[i]]
    ELSE Append(d, <<k, v>>)

\* an optional headers argument: None, or a dict
NoneArg == [none |-> TRUE, d |-> <<>>]

SomeArg(d) == [none |-> FALSE, d |-> d]

(***************************************************************************)
(* JSON. A value is a record with a tag t and a payload v: None, a bool,   *)
(* an int, a str (text), a list (sequence of values) or a dict with str    *)
(* keys (sequence of <<key, value>> pairs in insertion order).             *)
(***************************************************************************)
Quote == "U+22"
Backslash == "U+5C"

JNone == [t |-> "null", v |-> 0]
JBool(b) == [t |-> "bool", v |-> b]
JInt(n) == [t |-> "int", v |-> n]
JStr(s) == [t |-> "str", v |-> s]
JList(xs) == [t |-> "list", v |-> xs]
JDict(ps) == [t |-> "dict", v |-> ps]

\* json.dumps of one character of a str (ensure_ascii is on)
DumpsChar(c) ==
    IF c = Quote THEN <<Backslash, Quote>>
    ELSE IF c = Backslash THEN <<Backslash, Backslash>>
    ELSE IF c = EAcute THEN <<Backslash, "u", "0", "0", "e", "9">>
    ELSE <<c>>

RECURSIVE DumpsChars(_)
DumpsChars(s) ==
    IF s = <<>> THEN <<>> ELSE DumpsChar(Head(s)) \o DumpsChars(Tail(s))

\* json.dumps of a str whose characters are written as they are
DumpsStr_NoEscape(s) == <<Quote>> \o s \o <<Quote>>

\* json.dumps of a str
DumpsStr(s) == <<Quote>> \o DumpsChars(s) \o <<Quote>>

RECURSIVE JsonDumps(_)
RECURSIVE DumpsItems(_, _)
RECURSIVE DumpsMembers(_, _)

\* the items of a list from the i-th on, separated by ", "
DumpsItems(xs, i) ==
    IF i > Len(xs) THEN <<>>
    ELSE (IF i > 1 THEN <<",", " ">> ELSE <<>>)
         \o JsonDumps(xs[i]) \o DumpsItems(xs, i + 1)

\* the members of a dict from the i-th on: key, ": ", value
DumpsMembers(ps, i) ==
    IF i > Len(ps) THEN <<>>
    ELSE (IF i > 1 THEN <<",", " ">> ELSE <<>>)
         \o DumpsStr(ps[i][1]) \o <<":", " ">> \o JsonDumps(ps[i][2])
         \o DumpsMembers(ps, i + 1)

\* json.dumps(x), with its default separators
JsonDumps(x) ==
    CASE x.t = "null" -> <<"n", "u", "l", "l">>
      [] x.t = "bool" -> IF x.v THEN <<"t", "r", "u", "e">>
                         ELSE <<"f", "a", "l", "s", "e">>
      [] x.t = "int" -> IntStr(x.v)
      [] x.t = "str" -> DumpsStr(x.v)
      [] x.t = "list" -> <<"[">> \o DumpsItems(x.v, 1) \o <<"]">>
      [] x.t = "dict" -> <<"{">> \o DumpsMembers(x.v, 1) \o <<"}">>

\* str() of the JSONDecodeError of json.loads, abridged
JsonErrorText == <<"E", "x", "p", "e", "c", "t", "i", "n", "g", " ", "v", "a", "l", "u", "e">>

\* a step of the decoder: whether it succeeded, the value, the index after it
Parsed(v, i) == [ok |-> TRUE, val |-> v, pos |-> i]

ParseFail(i) == [ok |-> FALSE, val |-> JNone, pos |-> i]

RECURSIVE SkipWs(_, _)
\* the index of the first character from i on that is not a blank
SkipWs(s, i) == IF i <= Len(s) /\ s[i] = " " THEN SkipWs(s, i + 1) ELSE i

\* the text s has the word w at index i
StartsWith(s, i, w) ==
    i + Len(w) - 1 <= Len(s) /\ SubSeq(s, i, i + Len(w) - 1) = w

RECURSIVE DigitsEnd(_, _)
\* the index after the digits that start at i
DigitsEnd(s, i) ==
    IF i <= Len(s) /\ IsDigit(s[i]) THEN DigitsEnd(s, i + 1) ELSE i

\* the index after the integer part of a number at i: 0, or a digit other
\* than 0 followed by digits
IntEnd(s, i) ==
    IF i > Len(s) \/ ~IsDigit(s[i]) THEN i
    ELSE IF s[i] = "0" THEN i + 1
    ELSE DigitsEnd(s, i)

\* the number whose digits are s[i..e-1]
ParseNat(s, i, e) ==
    IF e = i THEN ParseFail(i)
    ELSE Parsed(JInt(DigitsVal(SubSeq(s, i, e - 1), 0)), e)

Negated(r) == IF r.ok THEN Parsed(JInt(0 - r.val.v), r.pos) ELSE r

\* a number at i; the texts decoded here have no fraction and no exponent
ParseNumber(s, i) ==
    IF s[i] = "-" THEN Negated(ParseNat(s, i + 1, IntEnd(s, i + 1)))
    ELSE ParseNat(s, i, IntEnd(s, i))

HexDigits == <<"0", "1", "2", "3", "4", "5", "6", "7", "8", "9", "a", "b", "c", "d", "e", "f">>

IsHex(c) == \E i \in 1..16 : HexDigits[i] = LowerChar(c)

HexVal(c) == (CHOOSE i \in 1..16 : HexDigits[i] = LowerChar(c)) - 1

\* the code point of the four hexadecimal digits at i
Hex4(s, i) ==
    4096 * HexVal(s[i]) + 256 * HexVal(s[i + 1]) + 16 * HexVal(s[i + 2])
    + HexVal(s[i + 3])

RECURSIVE ParseString(_, _, _)
RECURSIVE ParseValue(_, _)
RECURSIVE ParseItems(_, _, _)
RECURSIVE ParseMembers(_, _, _)

\* the str goes on after an escape that stands for code point cp (the texts
\* decoded here escape characters of Chars only)
WithCode(s, i, acc, cp) ==
    IF cp = 233 \/ (cp >= 32 /\ cp <= 126)
    THEN ParseString(s, i, Append(acc, Chr(cp)))
    ELSE ParseFail(i)

\* the escape whose character after the backslash is at i
ParseEscape(s, i, acc) ==
    IF i > Len(s) THEN ParseFail(i)
    ELSE IF s[i] \in {Quote, Backslash, "/"}
    THEN ParseString(s, i + 1, Append(acc, s[i]))
    ELSE IF s[i] = "u" /\ i + 4 <= Len(s) /\ \A k \in 1..4 : IsHex(s[i + k])
    THEN WithCode(s, i + 5, acc, Hex4(s, i + 1))
    ELSE ParseFail(i)

\* a str from index i, after its opening quote, acc being its characters so
\* far
ParseString(s, i, acc) ==
    IF i > Len(s) THEN ParseFail(i)
    ELSE IF s[i] = Quote THEN Parsed(JStr(acc), i + 1)
    ELSE IF s[i] = Backslash THEN ParseEscape(s, i + 1, acc)
    ELSE ParseString(s, i + 1, Append(acc, s[i]))

\* after an item of a list: "," and the next item, or "]"
ItemSep(s, i, acc) ==
    IF i > Len(s) THEN ParseFail(i)
    ELSE IF s[i] = "," THEN ParseItems(s, SkipWs(s, i + 1), acc)
    ELSE IF s[i] = "]" THEN Parsed(JList(acc), i + 1)
    ELSE ParseFail(i)

AfterItem(s, r, acc) ==
    IF ~r.ok THEN r ELSE ItemSep(s, SkipWs(s, r.pos), Append(acc, r.val))

\* the items of a list from index i on, acc being the items so far
ParseItems(s, i, acc) == AfterItem(s, ParseValue(s, i), acc)

\* a list from index i, after its "[" and the blanks that follow
ParseArray(s, i) ==
    IF i <= Len(s) /\ s[i] = "]" THEN Parsed(JList(<<>>), i + 1)
    ELSE ParseItems(s, i, <<>>)

\* after a member of a dict: "," and the next member, or "}"
MemberSep(s, i, acc) ==
    IF i > Len(s) THEN ParseFail(i)
    ELSE IF s[i] = "," THEN ParseMembers(s, SkipWs(s, i + 1), acc)
    ELSE IF s[i] = "}" THEN Parsed(JDict(acc), i + 1)
    ELSE ParseFail(i)

\* a key met again keeps its place and takes the later value
AfterMember(s, r, key, acc) ==
    IF ~r.ok THEN r ELSE MemberSep(s, SkipWs(s, r.pos), DictSet(acc, key, r.val))

KeyColon(s, i, key, acc) ==
    IF i > Len(s) \/ s[i] # ":" THEN ParseFail(i)
    ELSE AfterMember(s, ParseValue(s, SkipWs(s, i + 1)), key, acc)

AfterKey(s, k, acc) ==
    IF ~k.ok THEN k ELSE KeyColon(s, SkipWs(s, k.pos), k.val.v, acc)

\* the members of a dict from index i on, acc being the members so far
ParseMembers(s, i, acc) ==
    IF i > Len(s) \/ s[i] # Quote THEN ParseFail(i)
    ELSE AfterKey(s, ParseString(s, i + 1, <<>>), acc)

\* a dict from index i, after its "{" and the blanks that follow
ParseObject(s, i) ==
    IF i <= Len(s) /\ s[i] = "}" THEN Parsed(JDict(<<>>), i + 1)
    ELSE ParseMembers(s, i, <<>>)

\* the value that starts at index i
ParseValue(s, i) ==
    IF i > Len(s) THEN ParseFail(i)
    ELSE IF s[i] = Quote THEN ParseString(s, i + 1, <<>>)
    ELSE IF s[i] = "{" THEN ParseObject(s, SkipWs(s, i + 1))
    ELSE IF s[i] = "[" THEN ParseArray(s, SkipWs(s, i + 1))
    ELSE IF StartsWith(s, i, <<"n", "u", "l", "l">>) THEN Parsed(JNone, i + 4)
    ELSE IF StartsWith(s, i, <<"t", "r", "u", "e">>) THEN Parsed(JBool(TRUE), i + 4)
    ELSE IF StartsWith(s, i, <<"f", "a", "l", "s", "e">>) THEN Parsed(JBool(FALSE), i + 5)
    ELSE IF s[i] = "-" \/ IsDigit(s[i]) THEN ParseNumber(s, i)
    ELSE ParseFail(i)

\* the end of json.loads: the value r must be followed by blanks only
LoadsEnd(s, r) ==
    IF r.ok /\ SkipWs(s, r.pos) = Len(s) + 1
    THEN [val |-> r.val, exc |-> NoExc]
    ELSE [val |-> JNone, exc |-> Exc("JSONDecodeError", JsonErrorText)]

\* json.loads of a text
JsonLoadsText(s) == LoadsEnd(s, ParseValue(s, SkipWs(s, 1)))

\* json.loads of bytes: they are decoded as UTF-8 first
JsonLoads(b) ==
    IF ~Utf8Valid(b)
    THEN [val |-> JNone, exc |-> Exc("UnicodeDecodeError", DecodeErrorText)]
    ELSE JsonLoadsText(Utf8Decode(b))

(***************************************************************************)
(* The response stream. io is the state of one request/response cycle:     *)
(*   wire    the chunks written to wfile so far, in order                  *)
(*   buf     BaseHTTPRequestHandler._headers_buffer                        *)
(*   nwrites the number of wfile.write calls made so far                   *)
(*   rfile   the unread part of the request body                           *)
(* A chunk is a flushed header block (kind "head", its lines) or body      *)
(* bytes (kind "body", its data).                                          *)
(***************************************************************************)
StatusLine(code, phrase) ==
    [t |-> "status", name |-> <<>>, value |-> phrase, code |-> code]

HeaderLine(k, v) == [t |-> "header", name |-> k, value |-> v, code |-> 0]

BlankLine == [t |-> "blank", name |-> <<>>, value |-> <<>>, code |-> 0]

HeadChunk(lines) == [kind |-> "head", lines |-> lines, data |-> <<>>]

BodyChunk(data) == [kind |-> "body", lines |-> <<>>, data |-> data]

NewIo(rf) == [wire |-> <<>>, buf |-> <<>>, nwrites |-> 0, rfile |-> rf]

Ok(io) == [io |-> io, exc |-> NoExc]

\* wfile.write(chunk): from the wfail-th write call on the client is gone
\* and the write raises BrokenPipeError; wfail = 0 is a client that stays.
wfile_write(io, wfail, chunk) ==
    LET n == io.nwrites + 1
    IN  IF wfail # 0 /\ n >= wfail
        THEN [io |-> [io EXCEPT !.nwrites = n],
              exc |-> Exc("BrokenPipeError", BrokenPipeText)]
        ELSE Ok([io EXCEPT !.nwrites = n, !.wire = Append(@, chunk)])

\* BaseHTTPRequestHandler.send_response(status, message): the status line,
\* then the Server and Date headers, all into the headers buffer
send_response(io, status, message) ==
    [io EXCEPT !.buf = @ \o <<StatusLine(status, message),
                              HeaderLine(ServerKey, ServerVersion),
                              HeaderLine(DateKey, DateNow)>>]

\* BaseHTTPRequestHandler.send_header(key, value)
send_header(io, key, value) ==
    [io EXCEPT !.buf = Append(@, HeaderLine(key, value))]

\* the end of flush_headers: the buffer is emptied only after the write w
\* of it returned
flush_done(w) == IF Raised(w) THEN w ELSE Ok([w.io EXCEPT !.buf = <<>>])

\* BaseHTTPRequestHandler.flush_headers(): one write of the whole buffer
flush_headers(io, wfail) == flush_done(wfile_write(io, wfail, HeadChunk(io.buf)))

\* BaseHTTPRequestHandler.end_headers(): the blank line, then flush_headers
end_headers(io, wfail) ==
    flush_headers([io EXCEPT !.buf = Append(@, BlankLine)], wfail)

RECURSIVE SendEach(_, _, _)
\* the loop of Response.send_headers from item i on
SendEach(io, hdrs, i) ==
    IF i > Len(hdrs) THEN io
    ELSE SendEach(send_header(io, hdrs[i][1], hdrs[i][2]), hdrs, i + 1)

\* Response.send_headers(headers)
Response_send_headers(io, wfail, hdrs) ==
    end_headers(SendEach(io, hdrs, 1), wfail)

\* the last statement of Response.raw, reached when the headers went out
\* (h is the outcome of send_headers)
raw_write(h, wfail, data) ==
    IF Raised(h) THEN h ELSE wfile_write(h.io, wfail, BodyChunk(data))

\* Response.raw(data, status, message, headers)
Response_raw(io, wfail, data, status, message, hdrs) ==
    raw_write(Response_send_headers(send_response(io, status, message), wfail, hdrs),
              wfail, data)

\* Response.mapping with an entry for 418
mapping_WithTeapot ==
    (200 :> <<"O", "K">>)
    @@ (201 :> <<"C", "r", "e", "a", "t", "e", "d">>)
    @@ (204 :> <<"N", "o", " ", "C", "o", "n", "t", "e", "n", "t">>)
    @@ (400 :> <<"B", "a", "d", " ", "R", "e", "q", "u", "e", "s", "t">>)
    @@ (401 :> <<"U", "n", "a", "u", "t", "h", "o", "r", "i", "z", "e", "d">>)
    @@ (403 :> <<"F", "o", "r", "b", "i", "d", "d", "e", "n">>)
    @@ (404 :> <<"N", "o", "t", " ", "F", "o", "u", "n", "d">>)
    @@ (405 :> <<"M", "e", "t", "h", "o", "d", " ", "N", "o", "t", " ", "A", "l", "l", "o", "w", "e", "d">>)
    @@ (418 :> <<"I", "'", "m", " ", "a", " ", "t", "e", "a", "p", "o", "t">>)
    @@ (500 :> <<"I", "n", "t", "e", "r", "n", "a", "l", " ", "S", "e", "r", "v", "e", "r", " ", "E", "r", "r", "o", "r">>)

\* Response.mapping
mapping ==
    (200 :> <<"O", "K">>)
    @@ (201 :> <<"C", "r", "e", "a", "t", "e", "d">>)
    @@ (204 :> <<"N", "o", " ", "C", "o", "n", "t", "e", "n", "t">>)
    @@ (400 :> <<"B", "a", "d", " ", "R", "e", "q", "u", "e", "s", "t">>)
    @@ (401 :> <<"U", "n", "a", "u", "t", "h", "o", "r", "i", "z", "e", "d">>)
    @@ (403 :> <<"F", "o", "r", "b", "i", "d", "d", "e", "n">>)
    @@ (404 :> <<"N", "o", "t", " ", "F", "o", "u", "n", "d">>)
    @@ (405 :> <<"M", "e", "t", "h", "o", "d", " ", "N", "o", "t", " ", "A", "l", "l", "o", "w", "e", "d">>)
    @@ (500 :> <<"I", "n", "t", "e", "r", "n", "a", "l", " ", "S", "e", "r", "v", "e", "r", " ", "E", "r", "r", "o", "r">>)

\* the outcome r of a send together with the headers mapping h as the call
\* leaves it
WithHeaders(r, h) == [io |-> r.io, exc |-> r.exc, hdrs |-> h]

\* the call of self.raw with a phrase made up for a code outside mapping
text_raw_AnyStatus(io, wfail, bytes, status, h) ==
    WithHeaders(Response_raw(io, wfail, bytes, status,
                             IF status \in DOMAIN mapping THEN mapping[status]
                             ELSE <<>>, h), h)

\* the call of self.raw in Response.text, on the encoded data and the
\* headers mapping h: the lookup of the reason phrase is a KeyError for a
\* code outside mapping
text_raw(io, wfail, bytes, status, h) ==
    IF status \notin DOMAIN mapping
    THEN [io |-> io, exc |-> Exc("KeyError", IntStr(status)), hdrs |-> h]
    ELSE WithHeaders(Response_raw(io, wfail, bytes, status, mapping[status], h), h)

\* Response.text(data, status, headers): the default of the headers
\* argument, the Content-type entry set on the mapping, then self.raw
Response_text(io, wfail, data, status, hdrsArg) ==
    text_raw(io, wfail, Utf8Encode(data), status,
             DictSet(IF hdrsArg.none THEN <<>> ELSE hdrsArg.d,
                     ContentTypeKey, TextPlain))

\* Response.json(data, status, headers): as Response.text, with the data
\* serialized by json.dumps and the Content-type application/json
Response_json(io, wfail, data, status, hdrsArg) ==
    text_raw(io, wfail, Utf8Encode(JsonDumps(data)), status,
             DictSet(IF hdrsArg.none THEN <<>> ELSE hdrsArg.d,
                     ContentTypeKey, ApplicationJson))

(***************************************************************************)
(* The request context: RequestHandler.content_length, raw and text.       *)
(* rfile is [data, eof]: the bytes the client has sent and not yet read,   *)
(* and whether the client has finished sending.                            *)
(***************************************************************************)
RECURSIVE HeaderFind(_, _, _)
\* index of the first header named name (names compare case-insensitively,
\* as email.message.Message.get does), 0 when there is none
HeaderFind(hdrs, name, i) ==
    IF i > Len(hdrs) THEN 0
    ELSE IF Lower(hdrs[i][1]) = Lower(name) THEN i
    ELSE HeaderFind(hdrs, name, i + 1)

RECURSIVE StripLeft(_)
StripLeft(s) == IF s # <<>> /\ Head(s) = " " THEN StripLeft(Tail(s)) ELSE s

RECURSIVE StripRight(_)
StripRight(s) ==
    IF s # <<>> /\ s[Len(s)] = " " THEN StripRight(SubSeq(s, 1, Len(s) - 1)) ELSE s

\* str.strip()
Strip(s) == StripRight(StripLeft(s))

\* int() of the text s whose sign is neg and whose part after the sign is d
IntOfParts(neg, d, s) ==
    IF d # <<>> /\ \A i \in 1..Len(d) : IsDigit(d[i])
    THEN [val |-> IF neg THEN 0 - DigitsVal(d, 0) ELSE DigitsVal(d, 0),
          exc |-> NoExc]
    ELSE [val |-> 0,
          exc |-> Exc("ValueError", InvalidLiteralText \o <<"'">> \o s \o <<"'">>)]

\* int() of the text s, u being s without its surrounding blanks
IntOfStripped(u, s) ==
    IntOfParts(u # <<>> /\ Head(u) = "-",
               IF u # <<>> /\ Head(u) \in {"+", "-"} THEN Tail(u) ELSE u,
               s)

\* int(s) of a text: surrounding blanks, an optional sign, decimal digits;
\* anything else is a ValueError naming the text
IntOfText(s) == IntOfStripped(Strip(s), s)

\* int(self.headers.get("Content-Length", 0)), i being the index of the
\* header (0 when there is none)
LengthAt(hdrs, i) ==
    IF i = 0 THEN [val |-> 0, exc |-> NoExc] ELSE IntOfText(hdrs[i][2])

\* content_length with the default of headers.get left out: int(None)
RequestHandler_content_length_NoDefault(hdrs) ==
    IF HeaderFind(hdrs, ContentLengthKey, 1) = 0
    THEN [val |-> 0, exc |-> Exc("TypeError", <<>>)]
    ELSE LengthAt(hdrs, HeaderFind(hdrs, ContentLengthKey, 1))

\* RequestHandler.content_length: int(self.headers.get("Content-Length", 0))
RequestHandler_content_length(hdrs) ==
    LengthAt(hdrs, HeaderFind(hdrs, ContentLengthKey, 1))

\* rfile.read(n) cannot return yet: the client has sent fewer bytes than
\* asked for and has not finished sending
ReadBlocks(rf, n) == ~rf.eof /\ (n < 0 \/ Len(rf.data) < n)

\* rfile.read taking the first k bytes
rfile_take(rf, k) ==
    [val |-> SubSeq(rf.data, 1, k),
     rfile |-> [rf EXCEPT !.data = SubSeq(rf.data, k + 1, Len(rf.data))]]

\* rfile.read(n), when it returns: n bytes, or all that is left when the
\* stream ends sooner, or everything up to the end for a negative n
rfile_read(rf, n) ==
    rfile_take(rf, IF n < 0 \/ n > Len(rf.data) THEN Len(rf.data) ELSE n)

\* the outcome of RequestHandler.raw after the read r
raw_done(io, r) ==
    [io |-> [io EXCEPT !.rfile = r.rfile], exc |-> NoExc, val |-> r.val]

\* self.rfile.read(n), n being the outcome of self.content_length
raw_read(io, n) ==
    IF Raised(n) THEN [io |-> io, exc |-> n.exc, val |-> <<>>]
    ELSE raw_done(io, rfile_read(io.rfile, n.val))

\* RequestHandler.raw keeping the bytes it returns in the stream
RequestHandler_raw_Peek(io, hdrs) ==
    [raw_read(io, RequestHandler_content_length(hdrs)) EXCEPT !.io = io]

\* RequestHandler.raw: self.rfile.read(self.content_length)
RequestHandler_raw(io, hdrs) == raw_read(io, RequestHandler_content_length(hdrs))

\* rfile.read(n) blocks, n being the outcome of self.content_length
BlocksFor(rf, n) == ~Raised(n) /\ ReadBlocks(rf, n.val)

\* RequestHandler.raw blocks in rfile.read
RawBlocks(rf, hdrs) == BlocksFor(rf, RequestHandler_content_length(hdrs))

\* .decode("utf-8") of the outcome r of self.raw
text_decode(r) ==
    IF Raised(r) THEN r
    ELSE IF ~Utf8Valid(r.val)
    THEN [io |-> r.io, exc |-> Exc("UnicodeDecodeError", DecodeErrorText), val |-> <<>>]
    ELSE [io |-> r.io, exc |-> NoExc, val |-> Utf8Decode(r.val)]

\* RequestHandler.text: self.raw.decode("utf-8")
RequestHandler_text(io, hdrs) == text_decode(RequestHandler_raw(io, hdrs))

\* the outcome l of json.loads on the stream io
loads_done(io, l) == [io |-> io, exc |-> l.exc, val |-> l.val]

\* json.loads of the outcome r of self.raw
json_loads(r) ==
    IF Raised(r) THEN [io |-> r.io, exc |-> r.exc, val |-> JNone]
    ELSE loads_done(r.io, JsonLoads(r.val))

\* RequestHandler.json: json.loads(self.raw)
RequestHandler_json(io, hdrs) == json_loads(RequestHandler_raw(io, hdrs))

(***************************************************************************)
(* Handlers: the user functions registered with the app. A handler is a    *)
(* script of steps run against the request context:                        *)
(*   text  req.response.text(data, status)                                 *)
(*   json  req.response.json(data, status)                                 *)
(*   echo  req.response.text(req.text)                                     *)
(*   raise raise Exception(data)                                           *)
(* and returns its own name when it reaches its end.                       *)
(***************************************************************************)
WorldText == <<"w", "o", "r", "l", "d">>
BoomText == <<"b", "o", "o", "m">>
PartialText == <<"p", "a", "r", "t", "i", "a", "l">>

Step(op, data, status) == [op |-> op, data |-> data, status |-> status]

HandlerIds == {"hello", "boom", "sendboom", "echo", "teapot", "jteapot"}

Script ==
    [h \in HandlerIds |->
        CASE h = "hello" -> <<Step("text", WorldText, 200)>>
          [] h = "boom" -> <<Step("raise", BoomText, 0)>>
          [] h = "sendboom" -> <<Step("text", PartialText, 200),
                                 Step("raise", BoomText, 0)>>
          [] h = "echo" -> <<Step("echo", <<>>, 200)>>
          [] h = "teapot" -> <<Step("text", WorldText, 418)>>
          [] h = "jteapot" -> <<Step("json", JDict(<< <<<<"a">>, JInt(1)>> >>), 418)>>]

RECURSIVE RunScript(_, _, _, _)

\* a handler left by the exception of the outcome r
Thrown(r) == [io |-> r.io, exc |-> r.exc, ret |-> "None"]

\* the handler after the send r of its step i
AfterSend(h, i, req, r) ==
    IF Raised(r) THEN Thrown(r) ELSE RunScript(h, i + 1, r.io, req)

\* the step req.response.text(req.text), b being the outcome of req.text
EchoStep(h, i, req, st, b) ==
    IF Raised(b) THEN Thrown(b)
    ELSE AfterSend(h, i, req, Response_text(b.io, req.wfail, b.val, st.status, NoneArg))

\* step st, the i-th of handler h
RunStep(h, i, io, req, st) ==
    CASE st.op = "raise" ->
            [io |-> io, exc |-> Exc("Exception", st.data), ret |-> "None"]
      [] st.op = "text" ->
            AfterSend(h, i, req,
                      Response_text(io, req.wfail, st.data, st.status, NoneArg))
      [] st.op = "json" ->
            AfterSend(h, i, req,
                      Response_json(io, req.wfail, st.data, st.status, NoneArg))
      [] st.op = "echo" ->
            EchoStep(h, i, req, st, RequestHandler_text(io, req.headers))

\* the call handler(req_handler), from step i of its script on
RunScript(h, i, io, req) ==
    IF i > Len(Script[h]) THEN [io |-> io, exc |-> NoExc, ret |-> h]
    ELSE RunStep(h, i, io, req, Script[h][i])

(***************************************************************************)
(* Erica: the registry and dispatch.                                       *)
(***************************************************************************)
Route(path, method, h) == [path |-> path, handler |-> h, method |-> method]

\* the outcome of dispatch when no entry matched: that of the 404 send r
NotFound(r) == [io |-> r.io, exc |-> r.exc, ret |-> "None", invoked |-> <<>>]

\* the outcome of dispatch when entry i matched: that of its handler's call r
Invoked(r, i) == [io |-> r.io, exc |-> r.exc, ret |-> r.ret, invoked |-> <<i>>]

RECURSIVE DispatchFrom_LastWins(_, _, _, _, _)
\* dispatch with the loop keeping the latest match instead of returning at
\* the first
DispatchFrom_LastWins(hs, i, req, method, io) ==
    IF i > Len(hs)
    THEN NotFound(Response_text(io, req.wfail, NotFoundText, 404, NoneArg))
    ELSE IF /\ hs[i].path = req.path /\ hs[i].method = method
            /\ ~\E j \in (i + 1)..Len(hs) :
                    hs[j].path = req.path /\ hs[j].method = method
    THEN Invoked(RunScript(hs[i].handler, 1, io, req), i)
    ELSE DispatchFrom_LastWins(hs, i + 1, req, method, io)

RECURSIVE DispatchFrom_NoFallback(_, _, _, _, _)
\* dispatch with the else branch of the loop left out
DispatchFrom_NoFallback(hs, i, req, method, io) ==
    IF i > Len(hs)
    THEN [io |-> io, exc |-> NoExc, ret |-> "None", invoked |-> <<>>]
    ELSE IF hs[i].path = req.path /\ hs[i].method = method
    THEN Invoked(RunScript(hs[i].handler, 1, io, req), i)
    ELSE DispatchFrom_NoFallback(hs, i + 1, req, method, io)

RECURSIVE BeforeQuery(_)
\* the part of a path before its query string
BeforeQuery(p) ==
    IF p = <<>> \/ Head(p) = "?" THEN <<>> ELSE <<Head(p)>> \o BeforeQuery(Tail(p))

RECURSIVE DispatchFrom_IgnoresQuery(_, _, _, _, _)
\* dispatch comparing the path without its query string
DispatchFrom_IgnoresQuery(hs, i, req, method, io) ==
    IF i > Len(hs)
    THEN NotFound(Response_text(io, req.wfail, NotFoundText, 404, NoneArg))
    ELSE IF hs[i].path = BeforeQuery(req.path) /\ hs[i].method = method
    THEN Invoked(RunScript(hs[i].handler, 1, io, req), i)
    ELSE DispatchFrom_IgnoresQuery(hs, i + 1, req, method, io)

RECURSIVE DispatchFrom_AnyMethod(_, _, _, _, _)
\* dispatch comparing the path only
DispatchFrom_AnyMethod(hs, i, req, method, io) ==
    IF i > Len(hs)
    THEN NotFound(Response_text(io, req.wfail, NotFoundText, 404, NoneArg))
    ELSE IF hs[i].path = req.path
    THEN Invoked(RunScript(hs[i].handler, 1, io, req), i)
    ELSE DispatchFrom_AnyMethod(hs, i + 1, req, method, io)

RECURSIVE DispatchFrom(_, _, _, _, _)
\* the loop of Erica.dispatch from entry i on, and its else branch.
\* invoked lists the registry indices whose handler was called.
DispatchFrom(hs, i, req, method, io) ==
    IF i > Len(hs)
    THEN NotFound(Response_text(io, req.wfail, NotFoundText, 404, NoneArg))
    ELSE IF hs[i].path = req.path /\ hs[i].method = method
    THEN Invoked(RunScript(hs[i].handler, 1, io, req), i)
    ELSE DispatchFrom(hs, i + 1, req, method, io)

\* Erica.dispatch(req_handler, method)
dispatch(hs, req, method, io) == DispatchFrom(hs, 1, req, method, io)

(***************************************************************************)
(* RequestHandler.do_GET / do_POST. The result records what dispatch did   *)
(* (dexc, dret), the exception the except clause caught (caught) and what  *)
(* leaves the method (exc, ret).                                           *)
(***************************************************************************)
\* the entry point left through its except clause, whose send had outcome r
Caught(d, r) ==
    [io |-> r.io, exc |-> r.exc, ret |-> "None", invoked |-> d.invoked,
     caught |-> d.exc, dexc |-> d.exc, dret |-> d.ret]

\* the try statement of do_GET and do_POST around the outcome d of dispatch:
\* except Exception as e: self.response.text(str(e), 500)
TryExcept(d, wfail) ==
    IF Raised(d) /\ IsException(d.exc)
    THEN Caught(d, Response_text(d.io, wfail, StrOfExc(d.exc), 500, NoneArg))
    ELSE [io |-> d.io, exc |-> d.exc, ret |-> d.ret, invoked |-> d.invoked,
          caught |-> NoExc, dexc |-> d.exc, dret |-> d.ret]

\* RequestHandler.do_GET
do_GET(hs, req) == TryExcept(dispatch(hs, req, "GET", NewIo(req.rfile)), req.wfail)

\* RequestHandler.do_POST
do_POST(hs, req) == TryExcept(dispatch(hs, req, "POST", NewIo(req.rfile)), req.wfail)

(***************************************************************************)
(* Inputs.                                                                 *)
(***************************************************************************)
HelloPath == <<"/", "h", "e", "l", "l", "o">>
HelloQueryPath == <<"/", "h", "e", "l", "l", "o", "?", "x", "=", "1">>
MissingPath == <<"/", "m", "i", "s", "s", "i", "n", "g">>

\* the paths requests arrive with
ReqPaths == {HelloPath, HelloQueryPath, MissingPath}

\* what else a request arrives with: its header mapping, its body and the
\* write call from which on the client is gone (0: the client stays).
\* No body; a body of the declared length; a body with a malformed
\* Content-Length; no body and a client gone at the first, second or third
\* write call.
BodyAB == <<97, 98>>

Form(hdrs, data, wfail) == [headers |-> hdrs, data |-> data, wfail |-> wfail]

ReqForms ==
    { Form(<<>>, <<>>, 0),
      Form(<< <<ContentLengthKey, <<"2">> >> >>, BodyAB, 0),
      Form(<< <<ContentLengthKey, <<"x">> >> >>, BodyAB, 0),
      Form(<<>>, <<>>, 1),
      Form(<<>>, <<>>, 2),
      Form(<<>>, <<>>, 3) }

Request(path, method, form) ==
    [path |-> path, method |-> method, headers |-> form.headers,
     rfile |-> [data |-> form.data, eof |-> TRUE], wfail |-> form.wfail]

Requests(method) == {Request(p, method, f) : p \in ReqPaths, f \in ReqForms}

\* the routes the registering code passes in
RegPaths == {HelloPath, MissingPath}

RegMethods == {"GET", "POST", "PUT"}

RouteInput(path, method, h) ==
    \/ path = HelloPath /\ method = "GET" /\ h # "jteapot"
    \/ path = HelloPath /\ method = "POST" /\ h \in {"echo", "jteapot"}
    \/ path = MissingPath /\ method = "GET" /\ h = "boom"
    \/ path = HelloPath /\ method = "PUT" /\ h = "hello"

(***************************************************************************)
(* The state machine.                                                      *)
(***************************************************************************)
StartedLine == "Server started"
StoppedLine == "Server stopped"

NoRequest == Request(<<>>, "", Form(<<>>, <<>>, 0))

NoLast ==
    [served |-> FALSE, req |-> NoRequest, wire |-> <<>>, exc |-> NoExc,
     ret |-> "None", invoked |-> <<>>, caught |-> NoExc, dexc |-> NoExc,
     dret |-> "None"]

\* the record of a request/response cycle with result r
Cycle(req, r) ==
    [served |-> TRUE, req |-> req, wire |-> r.io.wire, exc |-> r.exc,
     ret |-> r.ret, invoked |-> r.invoked, caught |-> r.caught,
     dexc |-> r.dexc, dret |-> r.dret]

NoGot == [op |-> "none", num |-> 0, data |-> <<>>, exc |-> NoExc,
          before |-> [data |-> <<>>, eof |-> TRUE]]

\* an argument left out of a call, and one that is given
Omitted == [none |-> TRUE, v |-> 0]

Given(x) == [none |-> FALSE, v |-> x]

\* the argument x, or none when it is left out
Arg(omit, x) == IF omit THEN Omitted ELSE Given(x)

\* the value of a parameter whose default is d
ArgOr(a, d) == IF a.none THEN d ELSE a.v

NoSent ==
    [op |-> "none", bytes |-> <<>>, text |-> <<>>, value |-> JNone,
     status |-> 0, defaulted |-> FALSE, message |-> <<>>, arg |-> NoneArg,
     wfail |-> 0, wire |-> <<>>, exc |-> NoExc, hdrs |-> <<>>]

Init ==
    /\ handlers = <<>>
    /\ server = "new"
    /\ sock = "none"
    /\ log = <<>>
    /\ pending = FALSE
    /\ last = NoLast
    /\ headers = <<>>
    /\ rfile = [data |-> <<>>, eof |-> TRUE]
    /\ got = NoGot
    /\ sent = NoSent

\* Erica.register(path, method)(handler) putting the entry first
Erica_register_AtFront(hs, path, method, h) ==
    [handlers |-> <<[path |-> path, handler |-> h, method |-> method]>> \o hs,
     ret |-> h]

\* Erica.register(path, method)(handler) on the registry hs: the registry
\* after the call and what the call returns
Erica_register(hs, path, method, h) ==
    [handlers |-> Append(hs, [path |-> path, handler |-> h, method |-> method]),
     ret |-> h]

\* Erica.get(path)(handler) registering under the method name in lower case
Erica_get_LowerCase(hs, path, h) ==
    [handlers |-> Append(hs, [path |-> path, handler |-> h, method |-> "get"]),
     ret |-> h]

\* Erica.get(path)(handler) on the registry hs
Erica_get(hs, path, h) ==
    [handlers |-> Append(hs, [path |-> path, handler |-> h, method |-> "GET"]),
     ret |-> h]

\* Erica.post(path)(handler) on the registry hs
Erica_post(hs, path, h) ==
    [handlers |-> Append(hs, [path |-> path, handler |-> h, method |-> "POST"]),
     ret |-> h]

\* Erica.register(path, method)(handler), called by the thread that calls
\* run(), which run() blocks while the server is serving
register(path, method, h) ==
    /\ server = "new"
    /\ Len(handlers) < MaxHandlers
    /\ handlers' = Erica_register(handlers, path, method, h).handlers
    /\ UNCHANGED <<server, sock, log, pending, last, headers, rfile, got, sent>>

\* Erica.get(path)(handler)
get(path, h) ==
    /\ server = "new"
    /\ Len(handlers) < MaxHandlers
    /\ handlers' = Erica_get(handlers, path, h).handlers
    /\ UNCHANGED <<server, sock, log, pending, last, headers, rfile, got, sent>>

\* Erica.post(path)(handler)
post(path, h) ==
    /\ server = "new"
    /\ Len(handlers) < MaxHandlers
    /\ handlers' = Erica_post(handlers, path, h).handlers
    /\ UNCHANGED <<server, sock, log, pending, last, headers, rfile, got, sent>>

\* Erica.run up to serve_forever: the socket is bound, the startup line printed
run ==
    /\ server = "new"
    /\ server' = "serving"
    /\ sock' = "open"
    /\ log' = Append(log, StartedLine)
    /\ UNCHANGED <<handlers, pending, last, headers, rfile, got, sent>>

\* a client connects: the connection waits in the listen queue
Connect ==
    /\ sock = "open"
    /\ ~pending
    /\ pending' = TRUE
    /\ UNCHANGED <<handlers, server, sock, log, last, headers, rfile, got, sent>>

\* a serving loop that lets every exception of a request handler through
LoopSurvives_None(e) == FALSE

\* socketserver.BaseServer._handle_request_noblock: an Exception that leaves
\* the request handler is reported by handle_error and the loop goes on
LoopSurvives(e) == IsException(e)

\* the position of run() after a request/response cycle that left with exc:
\* what serve_forever lets through passes the except clause of run and its
\* finally clause
AfterCycle(exc) ==
    IF exc.type = "none" \/ LoopSurvives(exc) THEN "serving" ELSE "raised"

\* what a request/response cycle with result r leaves behind
Served(req, r) ==
    /\ last' = Cycle(req, r)
    /\ server' = AfterCycle(r.exc)
    /\ log' = IF AfterCycle(r.exc) = "raised" THEN Append(log, StoppedLine) ELSE log

\* serve_forever takes the waiting connection, whose request is a GET
ServeGET(req) ==
    /\ server = "serving"
    /\ pending
    /\ Served(req, do_GET(handlers, req))
    /\ pending' = FALSE
    /\ UNCHANGED <<handlers, sock, headers, rfile, got, sent>>

\* serve_forever takes the waiting connection, whose request is a POST
ServePOST(req) ==
    /\ server = "serving"
    /\ pending
    /\ Served(req, do_POST(handlers, req))
    /\ pending' = FALSE
    /\ UNCHANGED <<handlers, sock, headers, rfile, got, sent>>

\* the request methods RequestHandler has no do_ method for
OtherMethods == {"PUT", "get"}

OtherRequests == {Request(HelloPath, m, Form(<<>>, <<>>, 0)) : m \in OtherMethods}

\* the message and the body of the 501 of send_error, abridged
UnsupportedText == <<"U", "n", "s", "u", "p", "p", "o", "r", "t", "e", "d", " ", "m", "e", "t", "h", "o", "d">>
ConnectionKey == <<"C", "o", "n", "n", "e", "c", "t", "i", "o", "n">>
CloseText == <<"c", "l", "o", "s", "e">>

\* the outcome of a request that never enters the app, r being that of the
\* write of the error body
NotDispatched(r) ==
    [io |-> r.io, exc |-> r.exc, ret |-> "None", invoked |-> <<>>,
     caught |-> NoExc, dexc |-> NoExc, dret |-> "None"]

\* BaseHTTPRequestHandler.handle_one_request for a request whose method has
\* no do_ method in RequestHandler: send_error(501), and the app is never
\* called
Unsupported(req) ==
    NotDispatched(
        raw_write(
            end_headers(
                send_header(
                    send_header(
                        send_header(
                            send_response(NewIo(req.rfile), 501, UnsupportedText),
                            ConnectionKey, CloseText),
                        ContentTypeName, TextHtml),
                    ContentLengthKey, IntStr(Len(Utf8Encode(UnsupportedText)))),
                req.wfail),
            req.wfail, Utf8Encode(UnsupportedText)))

\* the record of a request answered without do_GET or do_POST being called
Refused(req, r) == [Cycle(req, r) EXCEPT !.served = FALSE]

\* serve_forever takes the waiting connection, whose request has a method
\* other than GET and POST
ServeOther(req) ==
    /\ server = "serving"
    /\ pending
    /\ last' = Refused(req, Unsupported(req))
    /\ pending' = FALSE
    /\ UNCHANGED <<handlers, server, sock, log, headers, rfile, got, sent>>

\* Erica.run from a KeyboardInterrupt on: server_close, the shutdown line
Interrupt ==
    /\ server = "serving"
    /\ server' = "returned"
    /\ sock' = "closed"
    /\ log' = Append(log, StoppedLine)
    /\ pending' = FALSE
    /\ UNCHANGED <<handlers, last, headers, rfile, got, sent>>

\* Erica.run from an error other than KeyboardInterrupt raised out of
\* serve_forever on (the selector failing, handle_error failing to report):
\* no except clause of run matches it, the finally clause prints the
\* shutdown line and the error leaves run. The socket is left as it is, and
\* a connection that waits stays in its queue.
ServeRaises ==
    /\ server = "serving"
    /\ server' = "raised"
    /\ log' = Append(log, StoppedLine)
    /\ UNCHANGED <<handlers, sock, pending, last, headers, rfile, got, sent>>

\* the shape of a step in which serve_forever takes the waiting connection:
\* the steps of ServeGET, ServePOST and ServeOther, and no other step of Next
TakeConnection ==
    /\ server = "serving"
    /\ pending
    /\ pending' = FALSE
    /\ server' \in {"serving", "raised"}

Next ==
    \/ \E p \in RegPaths, m \in RegMethods, h \in HandlerIds :
          RouteInput(p, m, h) /\ register(p, m, h)
    \/ \E p \in RegPaths, h \in HandlerIds : RouteInput(p, "GET", h) /\ get(p, h)
    \/ \E p \in RegPaths, h \in HandlerIds : RouteInput(p, "POST", h) /\ post(p, h)
    \/ run
    \/ Connect
    \/ \E req \in Requests("GET") : ServeGET(req)
    \/ \E req \in Requests("POST") : ServePOST(req)
    \/ \E req \in OtherRequests : ServeOther(req)
    \/ Interrupt
    \/ ServeRaises

Spec == Init /\ [][Next]_vars

\* serve_forever keeps taking waiting connections
FairSpec == Spec /\ WF_<<pending, server>>(TakeConnection)

(***************************************************************************)
(* The request context on its own: the body accessors of RequestHandler    *)
(* applied to a request with given headers and body stream.                *)
(***************************************************************************)
HostKey == <<"H", "o", "s", "t">>
LowerLengthKey == <<"c", "o", "n", "t", "e", "n", "t", "-", "l", "e", "n", "g", "t", "h">>

HeaderInputs ==
    { <<>>,
      << <<HostKey, <<"h">> >> >>,
      << <<ContentLengthKey, <<"0">> >> >>,
      << <<ContentLengthKey, <<"2">> >> >>,
      << <<HostKey, <<"h">> >>, <<ContentLengthKey, <<"3">> >> >>,
      << <<LowerLengthKey, <<"1">> >> >>,
      << <<ContentLengthKey, <<"x">> >> >>,
      << <<ContentLengthKey, <<"-", "1">> >> >>,
      << <<ContentLengthKey, <<>> >> >> }

BodyInputs ==
    { <<>>, <<97>>, <<97, 98>>, <<195, 169>>, <<255, 97, 98>>, <<49, 32, 50, 32>> }

InitReq ==
    /\ handlers = <<>>
    /\ server = "new"
    /\ sock = "none"
    /\ log = <<>>
    /\ pending = FALSE
    /\ last = NoLast
    /\ headers \in HeaderInputs
    /\ rfile \in [data : BodyInputs, eof : BOOLEAN]
    /\ got = NoGot
    /\ sent = NoSent

\* the record of an access op that left n, data and exc
Got(op, n, data, exc) ==
    [op |-> op, num |-> n, data |-> data, exc |-> exc, before |-> rfile]

\* what an access to the body with outcome r leaves behind
BodyRead(op, r) ==
    /\ got' = Got(op, 0, r.val, r.exc)
    /\ rfile' = r.io.rfile

\* what an evaluation of content_length with outcome r leaves behind
LengthRead(r) == got' = Got("content_length", r.val, <<>>, r.exc)

\* an evaluation of RequestHandler.content_length
ReadContentLength ==
    /\ LengthRead(RequestHandler_content_length(headers))
    /\ UNCHANGED <<handlers, server, sock, log, pending, last, headers, rfile, sent>>

\* an evaluation of RequestHandler.raw that returns or raises
ReadRaw ==
    /\ ~RawBlocks(rfile, headers)
    /\ BodyRead("raw", RequestHandler_raw(NewIo(rfile), headers))
    /\ UNCHANGED <<handlers, server, sock, log, pending, last, headers, sent>>

\* an evaluation of RequestHandler.text that returns or raises
ReadText ==
    /\ ~RawBlocks(rfile, headers)
    /\ BodyRead("text", RequestHandler_text(NewIo(rfile), headers))
    /\ UNCHANGED <<handlers, server, sock, log, pending, last, headers, sent>>

\* an evaluation of RequestHandler.json that returns or raises
ReadJson ==
    /\ ~RawBlocks(rfile, headers)
    /\ BodyRead("json", RequestHandler_json(NewIo(rfile), headers))
    /\ UNCHANGED <<handlers, server, sock, log, pending, last, headers, sent>>

NextReq ==
    \/ ReadContentLength
    \/ ReadRaw
    \/ ReadText
    \/ ReadJson

SpecReq == InitReq /\ [][NextReq]_vars

(***************************************************************************)
(* The response writer on its own: one call of a sender of Response, with  *)
(* given arguments, on the fresh response stream of a request.             *)
(***************************************************************************)
TeapotText == <<"I", "'", "m", " ", "a", " ", "t", "e", "a", "p", "o", "t">>
XKey == <<"X", "-", "A">>
LowerTypeKey == <<"c", "o", "n", "t", "e", "n", "t", "-", "t", "y", "p", "e">>

\* the status codes the callers pass: codes of Response.mapping and others
StatusInputs == {200, 201, 404, 418, 302}

\* the reason phrases the callers of raw pass
MessageInputs == {mapping[200], mapping[404], TeapotText}

\* the headers mappings the callers pass
DictInputs ==
    { <<>>,
      << <<XKey, <<"1">> >> >>,
      << <<ContentTypeKey, TextHtml>> >>,
      << <<LowerTypeKey, TextHtml>> >>,
      << <<ContentTypeName, TextHtml>>, <<XKey, <<"1">> >> >> }

HdrsArgs == {NoneArg} \cup {SomeArg(d) : d \in DictInputs}

StatusArgs == {Omitted} \cup {Given(n) : n \in StatusInputs}

BytesInputs == { <<>>, <<97, 98>> }

TextInputs == {WorldText, <<"c", "a", "f", EAcute>>}

\* the data the callers of json pass
JsonInputs ==
    << JDict(<<>>),
      JDict(<< <<<<"a">>, JInt(1)>> >>),
      JDict(<< <<<<"a">>, JStr(<<"c", "a", "f", EAcute>>)>> >>),
      JDict(<< <<<<"q">>, JStr(<<Quote, "h", "i", Quote, " ", Backslash, "u">>)>> >>),
      JDict(<< <<<<"a", " ", Quote>>, JList(<<JInt(10), JInt(0 - 2), JBool(TRUE), JNone>>)>> >>),
      JDict(<< <<<<"a">>, JDict(<< <<<<"b">>, JList(<<>>)>> >>)>>,
               <<<<"c">>, JBool(FALSE)>> >>) >>

WfailInputs == {0, 1, 2}

NoBody == [data |-> <<>>, eof |-> TRUE]

\* the record of a call of a sender with outcome r
Sent(op, bytes, text, value, sa, message, ha, wfail, r, hdrs) ==
    [op |-> op, bytes |-> bytes, text |-> text, value |-> value,
     status |-> ArgOr(sa, 200), defaulted |-> sa.none, message |-> message,
     arg |-> ha, wfail |-> wfail, wire |-> r.io.wire, exc |-> r.exc,
     hdrs |-> hdrs]

\* what a call of raw with outcome r leaves behind; raw leaves the caller's
\* mapping as it is
RawSent(data, status, message, h, wfail, r) ==
    sent' = Sent("raw", data, <<>>, JNone, Given(status), message, SomeArg(h),
                 wfail, r, h)

\* what a call of text with outcome r leaves behind
TextSent(da, sa, ha, wfail, r) ==
    sent' = Sent("text", <<>>, ArgOr(da, <<>>), JNone, sa, <<>>, ha, wfail, r,
                 r.hdrs)

\* what a call of json with outcome r leaves behind
JsonSent(da, sa, ha, wfail, r) ==
    sent' = Sent("json", <<>>, <<>>, ArgOr(da, JDict(<<>>)), sa, <<>>, ha,
                 wfail, r, r.hdrs)

\* a call Response.raw(data, status, message, headers)
CallRaw(data, status, message, h, wfail) ==
    /\ sent.op = "none"
    /\ RawSent(data, status, message, h, wfail,
               Response_raw(NewIo(NoBody), wfail, data, status, message, h))
    /\ UNCHANGED <<handlers, server, sock, log, pending, last, headers, rfile, got>>

\* a call Response.text(data, status, headers), arguments left out or given
CallText(da, sa, ha, wfail) ==
    /\ sent.op = "none"
    /\ TextSent(da, sa, ha, wfail,
                Response_text(NewIo(NoBody), wfail, ArgOr(da, <<>>),
                              ArgOr(sa, 200), ha))
    /\ UNCHANGED <<handlers, server, sock, log, pending, last, headers, rfile, got>>

\* a call Response.json(data, status, headers), arguments left out or given
CallJson(da, sa, ha, wfail) ==
    /\ sent.op = "none"
    /\ JsonSent(da, sa, ha, wfail,
                Response_json(NewIo(NoBody), wfail, ArgOr(da, JDict(<<>>)),
                              ArgOr(sa, 200), ha))
    /\ UNCHANGED <<handlers, server, sock, log, pending, last, headers, rfile, got>>

NextResp ==
    \/ \E data \in BytesInputs, status \in StatusInputs, message \in MessageInputs,
          h \in DictInputs, wfail \in WfailInputs :
          CallRaw(data, status, message, h, wfail)
    \/ \E omit \in BOOLEAN, data \in TextInputs, sa \in StatusArgs,
          ha \in HdrsArgs, wfail \in WfailInputs :
          CallText(Arg(omit, data), sa, ha, wfail)
    \/ \E omit \in BOOLEAN, k \in 1..Len(JsonInputs), sa \in StatusArgs,
          ha \in HdrsArgs, wfail \in WfailInputs :
          CallJson(Arg(omit, JsonInputs[k]), sa, ha, wfail)

SpecResp == Init /\ [][NextResp]_vars

(***************************************************************************)
(* What the client reads off the response stream.                          *)
(***************************************************************************)
\* the number of status-line-and-header blocks on the stream
HeadCount(w) == Cardinality({i \in 1..Len(w) : w[i].kind = "head"})

\* the status code of the response, 0 when no status line arrived
ClientStatus(w) ==
    IF w # <<>> /\ w[1].kind = "head" /\ w[1].lines[1].t = "status"
    THEN w[1].lines[1].code ELSE 0

\* the reason phrase of the response's status line
ClientPhrase(w) ==
    IF w # <<>> /\ w[1].kind = "head" /\ w[1].lines[1].t = "status"
    THEN w[1].lines[1].value ELSE <<>>

\* the values of the response's headers called name, in order
ClientHeader(w, name) ==
    IF w = <<>> \/ w[1].kind # "head" THEN <<>>
    ELSE LET ls == w[1].lines
             F[i \in 0..Len(ls)] ==
                 IF i = 0 THEN <<>>
                 ELSE IF ls[i].t = "header" /\ Lower(ls[i].name) = Lower(name)
                 THEN Append(F[i - 1], ls[i].value)
                 ELSE F[i - 1]
         IN  F[Len(ls)]

\* the bytes of the body chunks that follow the first header block
ClientBody(w) ==
    LET F[i \in 0..Len(w)] ==
            IF i <= 1 THEN <<>>
            ELSE IF w[i].kind = "body" THEN F[i - 1] \o w[i].data ELSE F[i - 1]
    IN  F[Len(w)]

\* the client got one whole response with this status, plain text and body
GotText(w, status, body) ==
    /\ HeadCount(w) = 1
    /\ Len(w) = 2
    /\ ClientStatus(w) = status
    /\ ClientHeader(w, ContentTypeName) = <<TextPlain>>
    /\ Utf8Valid(ClientBody(w))
    /\ Utf8Decode(ClientBody(w)) = body

\* the registry entries a request matches
MatchSet(hs, req) ==
    {i \in 1..Len(hs) : hs[i].path = req.path /\ hs[i].method = req.method}

Least(S) == CHOOSE x \in S : \A y \in S : x <= y

(***************************************************************************)
(* Claims.                                                                 *)
(***************************************************************************)

\* C1: a request whose (path, method) equals that of one or more registry
\* entries has exactly one handler invoked, once: the handler of the matching
\* entry registered first; dispatch ends the way that handler ends (returns
\* its result, or raises what it raises).
C1_FirstRegisteredWins ==
    last.served /\ MatchSet(handlers, last.req) # {} =>
        LET f == Least(MatchSet(handlers, last.req))
            h == RunScript(handlers[f].handler, 1, NewIo(last.req.rfile), last.req)
        IN  /\ last.invoked = <<f>>
            /\ last.dexc = h.exc
            /\ last.dret = h.ret
            /\ ~Raised(h) => last.dret = handlers[f].handler

\* C1 witness: two entries with the request's path and method and different
\* handlers; the first one ran and dispatch returned its result.
C1_Witness ==
    /\ last.served
    /\ Cardinality(MatchSet(handlers, last.req)) >= 2
    /\ handlers[1].handler # handlers[2].handler
    /\ last.invoked = <<1>>
    /\ last.dret = handlers[1].handler

\* C2: a request that matches no registry entry (the empty registry
\* included) has no handler invoked and is answered 404 with body
\* "Not Found" and Content-Type text/plain; a client that goes away during
\* the response receives at most the beginning of that response.
C2_NotFoundFallback ==
    last.served /\ MatchSet(handlers, last.req) = {} =>
        /\ last.invoked = <<>>
        /\ last.req.wfail = 0 => GotText(last.wire, 404, NotFoundText)
        /\ last.req.wfail # 0 =>
              /\ HeadCount(last.wire) <= 1
              /\ ClientStatus(last.wire) \in {0, 404}

\* C2 witness: a non-empty registry, a request that matches none of its
\* entries, and the 404 response on the stream.
C2_Witness ==
    /\ last.served
    /\ handlers # <<>>
    /\ MatchSet(handlers, last.req) = {}
    /\ GotText(last.wire, 404, NotFoundText)

\* C3: matching is exact equality of path and method: a request invokes a
\* handler registered for (p, m) if and only if its path is p and its method
\* is m. With only GET /hello registered, GET /hello gets the handler's
\* response and GET /hello?x=1, POST /hello and GET /missing get the 404.
C3_ExactMatch ==
    last.served =>
        /\ \A i \in 1..Len(handlers) :
              (\E k \in 1..Len(last.invoked) :
                  /\ handlers[last.invoked[k]].path = handlers[i].path
                  /\ handlers[last.invoked[k]].method = handlers[i].method)
              <=> (last.req.path = handlers[i].path
                   /\ last.req.method = handlers[i].method)
        /\ handlers = <<Route(HelloPath, "GET", "hello")>> /\ last.req.wfail = 0 =>
              IF last.req.path = HelloPath /\ last.req.method = "GET"
              THEN last.invoked = <<1>> /\ GotText(last.wire, 200, WorldText)
              ELSE last.invoked = <<>> /\ GotText(last.wire, 404, NotFoundText)

\* C3 witness: only GET /hello registered, and GET /hello?x=1 answered 404.
C3_Witness ==
    /\ last.served
    /\ handlers = <<Route(HelloPath, "GET", "hello")>>
    /\ last.req.path = HelloQueryPath
    /\ last.req.method = "GET"
    /\ GotText(last.wire, 404, NotFoundText)

\* C4: when the handler of a GET or POST request raises an error, the
\* client (one that stays connected) receives a 500 response whose body is
\* str(e), as plain text.
C4_HandlerErrorGives500 ==
    /\ last.served
    /\ last.invoked # <<>>
    /\ last.dexc.type # "none"
    /\ last.req.wfail = 0
    => GotText(last.wire, 500, StrOfExc(last.dexc))

\* C5: no error leaves do_GET / do_POST, whatever the handler or dispatch
\* does, failures of writes to the response stream included.
C5_NoErrorLeavesEntryPoint == last.served => last.exc.type = "none"

\* C7: at most one status line and header block is written to the response
\* stream in a request/response cycle.
C7_AtMostOneSend == last.served => HeadCount(last.wire) <= 1

\* a request/response cycle takes place in this step
CycleStep == pending /\ ~pending' /\ server' # "returned"

\* the handler of the cycle recorded in l raised
HandlerRaised(l) == l.served /\ l.invoked # <<>> /\ l.dexc.type # "none"

HasLength(hdrs) ==
    \E i \in 1..Len(hdrs) : Lower(hdrs[i][1]) = Lower(ContentLengthKey)

\* C8: content_length is 0, and raises nothing, when the request has no
\* Content-Length header.
C8_AbsentLengthIsZero ==
    got.op = "content_length" /\ ~HasLength(headers) =>
        got.num = 0 /\ got.exc = NoExc

\* C8 witness: content_length evaluated to 0 on a request that has headers,
\* none of them Content-Length.
C8_Witness ==
    /\ got.op = "content_length"
    /\ headers # <<>>
    /\ ~HasLength(headers)
    /\ got.num = 0
    /\ got.exc = NoExc

\* C9: content_length is 0, and raises nothing, when the Content-Length
\* header is present and is not a valid integer.
C9_MalformedLengthIsZero ==
    /\ got.op = "content_length"
    /\ HasLength(headers)
    /\ IntOfText(headers[HeaderFind(headers, ContentLengthKey, 1)][2]).exc # NoExc
    => got.num = 0 /\ got.exc = NoExc

\* C10: raw returns exactly content_length bytes of the body stream, and
\* raises when the stream ends before that many bytes are available.
C10_RawReadsExactly ==
    LET n == RequestHandler_content_length(headers)
    IN  got.op = "raw" /\ n.exc = NoExc /\ n.val >= 0 =>
            /\ got.exc = NoExc => Len(got.data) = n.val
            /\ got.before.eof /\ Len(got.before.data) < n.val => got.exc # NoExc

C12_SocketReleasedOnEveryExit ==
    server \in {"returned", "raised"} =>
        sock = "closed" /\ log = <<StartedLine, StoppedLine>>

\* C13: on every registry the program reaches, and for every path and
\* handler, get(path)(handler) does what register(path, "GET")(handler) does
\* and post(path)(handler) what register(path, "POST")(handler) does: the
\* entry {path, method, handler} is appended at the end of the registry, the
\* handler is returned, and a GET or POST request served on the resulting
\* registry has the same outcome under both forms.
C13_GetPostAreRegister ==
    server = "new" =>
        \A p \in ReqPaths, h \in HandlerIds :
            /\ Erica_get(handlers, p, h) = Erica_register(handlers, p, "GET", h)
            /\ Erica_post(handlers, p, h) = Erica_register(handlers, p, "POST", h)
            /\ Erica_get(handlers, p, h).handlers
                  = Append(handlers, Route(p, "GET", h))
            /\ Erica_post(handlers, p, h).handlers
                  = Append(handlers, Route(p, "POST", h))
            /\ Erica_get(handlers, p, h).ret = h
            /\ Erica_post(handlers, p, h).ret = h
            /\ \A f \in ReqForms :
                  /\ do_GET(Erica_get(handlers, p, h).handlers,
                            Request(p, "GET", f))
                        = do_GET(Erica_register(handlers, p, "GET", h).handlers,
                                 Request(p, "GET", f))
                  /\ do_POST(Erica_post(handlers, p, h).handlers,
                             Request(p, "POST", f))
                        = do_POST(Erica_register(handlers, p, "POST", h).handlers,
                                  Request(p, "POST", f))

\* C13 witness: a registry whose second entry is what post("/hello") of the
\* echo handler appends to a registry holding one GET entry, and equally
\* what register("/hello", "POST") appends.
C13_Witness ==
    /\ server = "new"
    /\ Len(handlers) = 2
    /\ handlers[1].method = "GET"
    /\ handlers = Erica_post(SubSeq(handlers, 1, 1), HelloPath, "echo").handlers
    /\ handlers = Erica_register(SubSeq(handlers, 1, 1), HelloPath, "POST", "echo").handlers

RECURSIVE JsonEq(_, _)
\* x == y on values: lists item by item, dicts key by key whatever the order
JsonEq(x, y) ==
    /\ x.t = y.t
    /\ CASE x.t \in {"list", "dict"} ->
              /\ Len(x.v) = Len(y.v)
              /\ IF x.t = "list"
                 THEN \A i \in 1..Len(x.v) : JsonEq(x.v[i], y.v[i])
                 ELSE \A i \in 1..Len(x.v) : \E j \in 1..Len(y.v) :
                          x.v[i][1] = y.v[j][1] /\ JsonEq(x.v[i][2], y.v[j][2])
         [] OTHER -> x.v = y.v

\* C14: json(data), to a client that stays connected and with a status code
\* of Response.mapping (200 when the status is left out), makes one call of
\* raw: one header block and one body on the stream; the body parsed as JSON
\* equals data, the status is the one passed, and the response has a header
\* Content-Type: application/json.
C14_JsonRoundTrip ==
    sent.op = "json" /\ sent.wfail = 0 /\ sent.status \in DOMAIN mapping =>
        /\ sent.exc = NoExc
        /\ Len(sent.wire) = 2
        /\ HeadCount(sent.wire) = 1
        /\ JsonLoads(ClientBody(sent.wire)).exc = NoExc
        /\ JsonEq(JsonLoads(ClientBody(sent.wire)).val, sent.value)
        /\ ClientStatus(sent.wire) = sent.status
        /\ sent.defaulted => ClientStatus(sent.wire) = 200
        /\ \E i \in 1..Len(ClientHeader(sent.wire, ContentTypeName)) :
              ClientHeader(sent.wire, ContentTypeName)[i] = ApplicationJson

\* C14 witness: json({"a": 1}) with the status left out put the eight bytes
\* {"a": 1} on the stream after a 200 header block.
C14_Witness ==
    /\ sent.op = "json"
    /\ sent.wfail = 0
    /\ sent.defaulted
    /\ JsonEq(sent.value, JDict(<< <<<<"a">>, JInt(1)>> >>))
    /\ ClientStatus(sent.wire) = 200
    /\ ClientBody(sent.wire) = <<123, 34, 97, 34, 58, 32, 49, 125>>

\* the paths and methods of C15, among them ones no request can have
OddPaths == {<<>>, HelloPath, <<"n", "o", " ", "s", "l", "a", "s", "h">>}
OddMethods == {"GET", "PUT", "get", ""}

\* C15: the registry is append-only. A step that changes it is a
\* registration: it adds one entry at the end, the entries before it keep
\* their index and content, and no request is served in it; a step that
\* serves a request (whether a handler ran, none matched or the handler
\* failed) leaves the registry as it is; and register appends its entry
\* whatever the path and method are and whether or not the entry is there
\* already.
C15_RegistryAppendOnly ==
    /\ [][handlers' # handlers =>
            /\ Len(handlers') = Len(handlers) + 1
            /\ SubSeq(handlers', 1, Len(handlers)) = handlers
            /\ last' = last]_vars
    /\ [][last' # last => handlers' = handlers]_vars
    /\ [](\A p \in OddPaths, m \in OddMethods, h \in HandlerIds :
            /\ Len(Erica_register(handlers, p, m, h).handlers) = Len(handlers) + 1
            /\ SubSeq(Erica_register(handlers, p, m, h).handlers, 1, Len(handlers))
                  = handlers
            /\ Erica_register(handlers, p, m, h).handlers[Len(handlers) + 1]
                  = Route(p, m, h))

\* C15 witness: the same entry registered twice, and a request whose handler
\* raised served on that registry.
C15_Witness ==
    /\ Len(handlers) = 2
    /\ handlers[1] = handlers[2]
    /\ HandlerRaised(last)

\* the number of bytes a read of n bytes takes from a stream that holds d
Taken(d, n) == IF n < 0 \/ n > Len(d) THEN Len(d) ELSE n

\* the bytes the call whose outcome is in got' read, and the length it asked
\* for
ReadNow == SubSeq(rfile.data, 1, Len(rfile.data) - Len(rfile'.data))
AskedNow == RequestHandler_content_length(headers)

\* C16: nothing is cached and every access consumes the stream. A call of
\* raw, json or text reads at the current position of the body stream, that
\* is after the bytes the calls before it read: it takes content_length
\* bytes from there (all that is left when there are fewer, nothing when the
\* length lookup raises), what it returns is made of those bytes, and the
\* stream goes on after them; on an exhausted stream raw returns no bytes.
C16_BodyAccessConsumes ==
    /\ [][got'.op \in {"raw", "json", "text"} /\ AskedNow.exc # NoExc =>
            rfile' = rfile /\ got'.exc = AskedNow.exc]_vars
    /\ [][got'.op \in {"raw", "json", "text"} /\ AskedNow.exc = NoExc =>
            /\ Len(rfile.data) - Len(rfile'.data) = Taken(rfile.data, AskedNow.val)
            /\ rfile.data = ReadNow \o rfile'.data
            /\ got'.op = "raw" => got'.exc = NoExc /\ got'.data = ReadNow
            /\ got'.op = "text" =>
                  IF Utf8Valid(ReadNow)
                  THEN got'.exc = NoExc /\ got'.data = Utf8Decode(ReadNow)
                  ELSE got'.exc.type = "UnicodeDecodeError"
            /\ got'.op = "json" =>
                  /\ got'.exc = JsonLoads(ReadNow).exc
                  /\ JsonEq(got'.data, JsonLoads(ReadNow).val)]_vars
    /\ [][got'.op = "raw" /\ rfile.data = <<>> /\ got'.exc = NoExc =>
            got'.data = <<>>]_vars

\* C16 witness: on the body "1 2 " with Content-Length 2, a call of json
\* after an earlier access returned 2, read from where that access had left
\* the stream, and left the stream exhausted.
C16_Witness ==
    /\ got.op = "json"
    /\ got.exc = NoExc
    /\ got.before.data = <<50, 32>>
    /\ JsonEq(got.data, JInt(2))
    /\ rfile.data = <<>>

\* C17: a response sent by text (by json) has exactly one Content-Type
\* header, with value text/plain (application/json), whatever headers
\* mapping the caller passes, one with a content-type key in any letter
\* case included; and the caller's mapping is after the call what it was
\* before.
C17_OneContentTypeCallerUntouched ==
    sent.op \in {"text", "json"} =>
        /\ HeadCount(sent.wire) >= 1 =>
              ClientHeader(sent.wire, ContentTypeName)
                  = <<IF sent.op = "text" THEN TextPlain ELSE ApplicationJson>>
        /\ ~sent.arg.none => sent.hdrs = sent.arg.d

\* the nine status codes of the fixed reason-phrase table
TableCodes == {200, 201, 204, 400, 401, 403, 404, 405, 500}

\* the first thing handler h does is a call of text or json with a status
\* code outside the table
SendsUnknownStatus(h) ==
    /\ Script[h][1].op \in {"text", "json"}
    /\ Script[h][1].status \notin TableCodes

\* the status-line-and-header blocks on the stream whose status code is not
\* in the table
UnknownHeads(w) ==
    {i \in 1..Len(w) : w[i].kind = "head" /\ w[i].lines[1].code \notin TableCodes}

\* C18: when the handler of a request calls text or json with a status code
\* outside the table, the call raises (KeyError) with nothing written, and
\* do_GET / do_POST answer with a single 500 response, whose body is the
\* text of the error: a client that stays connected receives exactly that
\* response, one that goes away at most its beginning; no status line with
\* the unknown code is ever on the stream.
C18_UnknownStatusGives500 ==
    /\ last.served
    /\ last.invoked # <<>>
    /\ SendsUnknownStatus(handlers[last.invoked[1]].handler)
    => /\ last.dexc
             = Exc("KeyError", IntStr(Script[handlers[last.invoked[1]].handler][1].status))
       /\ RunScript(handlers[last.invoked[1]].handler, 1,
                    NewIo(last.req.rfile), last.req).io.wire = <<>>
       /\ UnknownHeads(last.wire) = {}
       /\ last.req.wfail = 0 => GotText(last.wire, 500, StrOfExc(last.dexc))
       /\ last.req.wfail # 0 =>
             HeadCount(last.wire) <= 1 /\ ClientStatus(last.wire) \in {0, 500}

\* C18 witness: the handler that calls json({"a": 1}, 418) was invoked and
\* the client received one 500 response with body 418.
C18_Witness ==
    /\ last.served
    /\ last.invoked # <<>>
    /\ handlers[last.invoked[1]].handler = "jteapot"
    /\ GotText(last.wire, 500, <<"4", "1", "8">>)

\* C19: do_GET and do_POST are the only ways into dispatch. Every handler
\* invoked for a request was registered under "GET" or "POST"; a request
\* with another method ("PUT", "get") is answered without do_GET, do_POST or
\* any handler being called, also when an entry with its path and method is
\* in the registry.
C19_OnlyGetPostDispatched ==
    /\ \A k \in 1..Len(last.invoked) :
          /\ handlers[last.invoked[k]].method \in {"GET", "POST"}
          /\ handlers[last.invoked[k]].method = last.req.method
    /\ last.served => last.req.method \in {"GET", "POST"}
    /\ last.req.method \in OtherMethods =>
          ~last.served /\ last.invoked = <<>> /\ ClientStatus(last.wire) = 501

\* C19 witness: an entry registered for PUT /hello, and a PUT /hello request
\* answered 501 with no handler invoked.
C19_Witness ==
    /\ \E i \in 1..Len(handlers) :
          handlers[i].method = "PUT" /\ handlers[i].path = HelloPath
    /\ last.req.method = "PUT"
    /\ last.req.path = HelloPath
    /\ last.invoked = <<>>
    /\ ClientStatus(last.wire) = 501

====
